---- MODULE Spec2Model ----
(***************************************************************************)
(* Model of src/tool.py: run(context), the tractography job that tracks    *)
(* streamlines from the injection mask and condenses them into stacks of   *)
(* thresholded log-density volumes (EPFL stage, VUMC stage).               *)
(*                                                                         *)
(* Abstractions.  The 3-D voxel grid is a row of NV voxels.  A streamline  *)
(* is its length (in tenths of a millimetre) and the set of voxels its     *)
(* points fall in.  A binary volume is the set of its true voxels.         *)
(* numpy.float32 is a binary floating-point format with a MantBits-bit     *)
(* significand (24 in numpy; reduced here so that TLC's integers hold      *)
(* every intermediate product), rounded to nearest, ties to even.          *)
(***************************************************************************)
EXTENDS Integers, Sequences, FiniteSets

\* ------------------------------------------------------------------ bounds
NV == 2
MaxSeeds == 2
MantBits == 10
MaxLogValue == 20
StepBudget == 3

\* ------------------------------------------------------- program constants
NumThresholds == 200
MinLength == 10
FixedOne == 1000

Voxels == 1..NV

VARIABLES
    pc,             \* position of run: the next block of tool.py to execute
    dataset,        \* settings['dataset']
    postprocessing, \* settings['postprocessing']
    grids,          \* affine of each loaded volume: dwi, inject, rois
    rois,           \* ROIs_img label of every voxel
    downloads,      \* files downloaded so far
    progress,       \* last message given to context.set_progress
    tracked,        \* the bundle as tracking produced it (line 153)
    streamlines,    \* the variable streamlines of run, rebound by the stages
    filtered,       \* result of the latest length filter (line 174 / 197)
    density_in,     \* bundle given to the latest utils.density_map call
    log_density,    \* the latest log_density volume
    epfl_stack,     \* volumes written to /root/vol_epfl, in index order
    vumc_stack,     \* volumes written to /root/vol_vumc, in index order
    archives,       \* zip archives made
    uploads,        \* names given to context.upload_file
    error,          \* the exception that ended run, or "none"
    tracker         \* the state of the tracking loop behind line 153

vars == <<pc, dataset, postprocessing, grids, rois, downloads, progress,
          tracked, streamlines, filtered, density_in, log_density,
          epfl_stack, vumc_stack, archives, uploads, error, tracker>>

\* ----------------------------------------------------- float32 arithmetic
\* The integer nearest to num/den, ties to the even one (IEEE default).
RoundHalfEven(num, den) ==
    LET q == num \div den
        r == num % den
    IN  IF 2 * r > den \/ (2 * r = den /\ q % 2 = 1) THEN q + 1 ELSE q

\* The binary exponent that normalises num/den to a MantBits-bit significand.
RECURSIVE Shift(_, _)
Shift(num, den) ==
    IF num >= den * 2^(MantBits - 1) THEN 0 ELSE 1 + Shift(2 * num, den)

\* num/den (0 < num/den < 2^MantBits) rounded to the float format: the float
\* is m / 2^k.
FloatDiv(num, den) ==
    LET k == Shift(num, den)
    IN  [m |-> RoundHalfEven(num * 2^k, den), k |-> k]

Ceil(f) == (f.m + 2^f.k - 1) \div 2^f.k

Max(S) == CHOOSE x \in S : \A y \in S : y <= x

\* ------------------------------------------------------ streamline bundles
\* Index sets of contiguous voxels: where the points of a streamline fall.
Intervals == {a..b : a \in Voxels, b \in Voxels} \ {{}}

Lengths == {0, 10, 20}

\* A streamline of length 0 is a single point (a seed that stops at once).
Streamline ==
    {s \in [len : Lengths, vox : Intervals] : s.len = 0 => Cardinality(s.vox) = 1}

Bundles == UNION {[1..n -> Streamline] : n \in 0..MaxSeeds}

\* streamlines[idx] for a list of indices idx.
Take(bundle, idx) == [k \in 1..Len(idx) |-> bundle[idx[k]]]

\* The increasing list of the indices from i on at which the boolean array
\* keep is true.
RECURSIVE IndicesWhere(_, _)
IndicesWhere(keep, i) ==
    IF i > Len(keep) THEN <<>>
    ELSE (IF keep[i] THEN <<i>> ELSE <<>>) \o IndicesWhere(keep, i + 1)

\* Slips of the length filter: a streamline of length exactly 1 kept; the
\* index list shifted by one place.
LengthFilterInclusive(bundle) ==
    Take(bundle, IndicesWhere([k \in 1..Len(bundle) |-> bundle[k].len >= MinLength], 1))

LengthFilterOffByOne(bundle) ==
    Take(bundle, IndicesWhere([k \in 1..Len(bundle) |->
                                  bundle[k].len > MinLength /\ bundle[k] /= bundle[1]], 1))

\* lengths = length(streamlines); streamlines[lengths > 1]
LengthFilter(bundle) ==
    Take(bundle, IndicesWhere([k \in 1..Len(bundle) |-> bundle[k].len > MinLength], 1))

\* The labels of the voxels a streamline's points fall in (inclusive=True);
\* label 0 is a label of label_volume like any other.
EntireLabels(s, labels) == {labels[v] : v \in s.vox}

\* A slip of the grouping: one label of the pair is enough.
GroupingEither(bundle, labels, a, b) ==
    IndicesWhere([k \in 1..Len(bundle) |->
                      {a, b} \cap EntireLabels(bundle[k], labels) /= {}], 1)

\* grouping[(a, b)] of utils.connectivity_matrix(..., inclusive=True,
\* return_mapping=True, mapping_as_streamlines=False): the indices of the
\* streamlines that pass through label a and through label b (a < b); a key
\* that was never filled reads as the empty list.
Grouping(bundle, labels, a, b) ==
    IndicesWhere([k \in 1..Len(bundle) |->
                      {a, b} \subseteq EntireLabels(bundle[k], labels)], 1)

\* streamlines[grouping[(0, 1)]]
ConnectivityFilter(bundle, labels) == Take(bundle, Grouping(bundle, labels, 0, 1))

\* ------------------------------------------------------- density quantizer
\* utils.density_map: per voxel, the number of streamlines passing through.
DensityMap(bundle) ==
    [v \in Voxels |-> Cardinality({i \in 1..Len(bundle) : v \in bundle[i].vox})]

\* Normalised weights of the sigma = 0.5 kernel, in thousandths: the taps at
\* distance 2 (0.00026) round to 0.
GaussWeight(d) == CASE d = 0 -> 788 [] d \in {-1, 1} -> 106 [] OTHER -> 0

\* scipy's default boundary mode, reflect: (b a | a b ... y z | z y).
Reflect(i) == IF i < 1 THEN 1 - i ELSE IF i > NV THEN 2 * NV + 1 - i ELSE i

SumOver(f, S) ==
    LET RECURSIVE Sum(_)
        Sum(T) == IF T = {} THEN 0
                  ELSE LET x == CHOOSE x \in T : TRUE IN f[x] + Sum(T \ {x})
    IN  Sum(S)

\* scipy.ndimage.gaussian_filter(density.astype("float32"), 0.5), the result
\* in thousandths.
GaussianFilter(density) ==
    [v \in Voxels |->
        SumOver([d \in -2..2 |-> GaussWeight(d) * density[Reflect(v + d)]], -2..2)]

\* log10(y / FixedOne) for FixedOne <= y < 10 * FixedOne, truncated to bits
\* binary digits, as an integer count of 2^-bits: the digits of the logarithm
\* come out of repeated squaring.
RECURSIVE Log10Digits(_, _)
Log10Digits(y, bits) ==
    IF bits = 0 THEN 0
    ELSE LET y2 == (y * y) \div FixedOne
         IN  IF y2 >= 10 * FixedOne
             THEN 2^(bits - 1) + Log10Digits(y2 \div 10, bits - 1)
             ELSE Log10Digits(y2, bits - 1)

\* np.log10(density + 1): a volume of floats k / 2^MantBits, held as k.
LogDensity(bundle) ==
    LET density == GaussianFilter(DensityMap(bundle))
    IN  [v \in Voxels |-> Log10Digits(density[v] + FixedOne, MantBits)]

\* np.max(log_density)
MaxDensity(ld) == Max({ld[v] : v \in Voxels})

\* max_density / 200, a float32 quotient
Step(M) == FloatDiv(M, NumThresholds)

\* The length np.arange(0, max_density, step) gives its result: the ceiling
\* of the float32 quotient (max_density - 0) / step.
ArangeLength(M) ==
    LET step == Step(M) IN Ceil(FloatDiv(M * 2^step.k, step.m))

\* Slips of the comparison: <= for >=, and > for >=.
MaskBelow(ld, step, i) == {v \in Voxels : ld[v] * 2^step.k <= i * step.m}

MaskStrict(ld, step, i) == {v \in Voxels : ld[v] * 2^step.k > i * step.m}

\* mask = log_density >= t for t = i * step, the i-th element of the arange.
Mask(ld, step, i) == {v \in Voxels : ld[v] * 2^step.k >= i * step.m}

\* The volumes the loop over enumerate(np.arange(...)) writes, volume i at
\* position i + 1.  Needs MaxDensity(ld) > 0.
ThresholdStack(ld) ==
    LET M == MaxDensity(ld)
        step == Step(M)
    IN  [i \in 1..ArangeLength(M) |-> Mask(ld, step, i - 1)]

\* ------------------------------------------------------------------- run
Datasets == {"HCPL", "DSI", "OTHER"}
Modes == {"EPFL", "VUMC", "ALL", "NONE"}
Affines == {"A", "B"}
Labels == {0, 1, 2}

\* The tracking loop, where run does not look into it.
IdleTracker == [phase |-> "idle"]

Init ==
    /\ pc = "start"
    /\ dataset \in Datasets
    /\ postprocessing \in Modes
    /\ grids = [g \in {"dwi", "inject", "rois"} |-> "unloaded"]
    /\ rois = [v \in Voxels |-> 0]
    /\ downloads = {}
    /\ progress = ""
    /\ tracked = <<>>
    /\ streamlines = <<>>
    /\ filtered = <<>>
    /\ density_in = <<>>
    /\ log_density = [v \in Voxels |-> 0]
    /\ epfl_stack = <<>>
    /\ vumc_stack = <<>>
    /\ archives = {}
    /\ uploads = {}
    /\ error = "none"
    /\ tracker = IdleTracker

\* Lines 31-56: the diffusion image and its gradient tables are fetched for
\* a known dataset; any other value is only reported, and run goes on.
SelectInputs ==
    /\ pc = "start"
    /\ IF dataset \in {"HCPL", "DSI"}
       THEN /\ downloads' = downloads \cup {"dwi", "bvalues", "bvecs"}
            /\ UNCHANGED progress
       ELSE /\ progress' = "Wrong dataset parameter"
            /\ UNCHANGED downloads
    /\ pc' = "masks"
    /\ UNCHANGED <<dataset, postprocessing, grids, rois, tracked, streamlines,
                   filtered, density_in, log_density, epfl_stack, vumc_stack,
                   archives, uploads, error,
                   tracker>>

\* Lines 58-64: the injection mask and the ROI volume are downloaded.
DownloadMasks ==
    /\ pc = "masks"
    /\ downloads' = downloads \cup {"inject", "VUMC_ROIs"}
    /\ pc' = "load"
    /\ UNCHANGED <<dataset, postprocessing, grids, rois, progress, tracked,
                   streamlines, filtered, density_in, log_density, epfl_stack,
                   vumc_stack, archives, uploads, error,
                   tracker>>

\* Lines 93-119: nib.load(dwi_file_path) reads a name that no branch bound
\* when the dataset was not recognised.  Otherwise the image, the brain mask,
\* the tensor fit, the stopping criterion and the seeds are made; the affine
\* of the injection mask is taken for every volume, and nothing compares it
\* with the affine of the diffusion image (named "A" here: only whether two
\* affines are equal matters).
LoadData ==
    /\ pc = "load"
    /\ IF dataset \notin {"HCPL", "DSI"}
       THEN /\ pc' = "raised"
            /\ error' = "UnboundLocalError"
            /\ UNCHANGED <<grids, progress>>
       ELSE /\ \E a \in Affines :
                grids' = [grids EXCEPT !["dwi"] = "A", !["inject"] = a]
            /\ progress' = "Processing voxel-wise DTI metrics."
            /\ pc' = "direction"
            /\ UNCHANGED error
    /\ UNCHANGED <<dataset, postprocessing, rois, downloads, tracked,
                   streamlines, filtered, density_in, log_density, epfl_stack,
                   vumc_stack, archives, uploads,
                   tracker>>

\* Lines 121-145: the direction getter of the dataset's model.
DirectionGetter ==
    /\ pc = "direction"
    /\ progress' = IF dataset = "HCPL"
                   THEN "Processing voxel-wise FOD estimation."
                   ELSE "Processing voxel-wise DSI estimation."
    /\ pc' = "track"
    /\ UNCHANGED <<dataset, postprocessing, grids, rois, downloads, tracked,
                   streamlines, filtered, density_in, log_density, epfl_stack,
                   vumc_stack, archives, uploads, error,
                   tracker>>

\* Lines 150-153: Streamlines(LocalTracking(...)), whatever bundle the
\* probabilistic tracking yields.
Track ==
    /\ pc = "track"
    /\ progress' = "Processing tractography."
    /\ \E b \in Bundles :
        /\ tracked' = b
        /\ streamlines' = b
    /\ pc' = "epfl"
    /\ UNCHANGED <<dataset, postprocessing, grids, rois, downloads, filtered,
                   density_in, log_density, epfl_stack, vumc_stack, archives,
                   uploads, error,
                   tracker>>

\* length(streamlines) of an empty bundle is the number 0.0, so the index
\* lengths > 1 is the bool False: ArraySequence reads it as the integer
\* index 0.
EmptyIndexRaises ==
    /\ streamlines = <<>>
    /\ pc' = "raised"
    /\ error' = "IndexError"

\* Lines 178-188 (and 209-219): the loop over np.arange(0, max_density,
\* max_density / 200) and the archive.  With max_density = 0 the step is 0
\* and np.arange cannot compute a length.
Quantize(ld, stack, name, next) ==
    IF MaxDensity(ld) = 0
    THEN /\ pc' = "raised"
         /\ error' = "ValueError"
         /\ stack' = stack
         /\ UNCHANGED archives
    ELSE /\ stack' = ThresholdStack(ld)
         /\ archives' = archives \cup {name}
         /\ pc' = next
         /\ UNCHANGED error

\* Lines 168-188.
EPFLStage ==
    /\ pc = "epfl"
    /\ IF postprocessing \notin {"EPFL", "ALL"}
       THEN /\ pc' = "vumc"
            /\ UNCHANGED <<progress, streamlines, filtered, density_in,
                           log_density, epfl_stack, archives, error>>
       ELSE /\ progress' = "Processing density map (EPFL)"
            /\ \/ /\ EmptyIndexRaises
                  /\ UNCHANGED <<streamlines, filtered, density_in, log_density,
                                 epfl_stack, archives>>
               \/ LET kept == LengthFilter(streamlines)
                  IN  /\ streamlines' = kept
                      /\ filtered' = kept
                      /\ density_in' = kept
                      /\ log_density' = LogDensity(kept)
                      /\ Quantize(log_density', epfl_stack, "EPFL", "vumc")
    /\ UNCHANGED <<dataset, postprocessing, grids, rois, downloads, tracked,
                   vumc_stack, uploads,
                   tracker>>

\* Lines 190-219: the ROI volume is loaded here; its affine is never read.
VUMCStage ==
    /\ pc = "vumc"
    /\ IF postprocessing \notin {"VUMC", "ALL"}
       THEN /\ pc' = "upload"
            /\ UNCHANGED <<grids, rois, progress, streamlines, filtered,
                           density_in, log_density, vumc_stack, archives, error>>
       ELSE /\ progress' = "Processing density map (VUMC)"
            /\ \E a \in Affines, labels \in [Voxels -> Labels] :
                /\ grids' = [grids EXCEPT !["rois"] = a]
                /\ rois' = labels
                /\ \/ /\ EmptyIndexRaises
                      /\ UNCHANGED <<streamlines, filtered, density_in,
                                     log_density, vumc_stack, archives>>
                   \/ LET kept == LengthFilter(streamlines)
                          joined == ConnectivityFilter(kept, labels)
                      IN  /\ filtered' = kept
                          /\ streamlines' = joined
                          /\ density_in' = joined
                          /\ log_density' = LogDensity(joined)
                          /\ Quantize(log_density', vumc_stack, "VUMC", "upload")
    /\ UNCHANGED <<dataset, postprocessing, downloads, tracked, epfl_stack,
                   uploads,
                   tracker>>

\* Lines 224-233.
Upload ==
    /\ pc = "upload"
    /\ progress' = "Uploading results..."
    /\ uploads' = uploads
         \cup (IF postprocessing \in {"EPFL", "ALL"}
               THEN {<<"TrackyMcTrackface_", dataset, "_EPFL.zip">>} ELSE {})
         \cup (IF postprocessing \in {"VUMC", "ALL"}
               THEN {<<"TrackyMcTrackface_", dataset, "_VUMC.zip">>} ELSE {})
    /\ pc' = "done"
    /\ UNCHANGED <<dataset, postprocessing, grids, rois, downloads, tracked,
                   streamlines, filtered, density_in, log_density, epfl_stack,
                   vumc_stack, archives, error,
                   tracker>>

Next ==
    \/ SelectInputs
    \/ DownloadMasks
    \/ LoadData
    \/ DirectionGetter
    \/ Track
    \/ EPFLStage
    \/ VUMCStage
    \/ Upload

Spec == Init /\ [][Next]_vars

\* ------------------------------------------- the threshold loop on its own
\* Every log-density volume with values 0 .. MaxLogValue / 2^MantBits, given
\* to the loop of lines 178-188.
QuantInit ==
    /\ pc = "quantize"
    /\ log_density \in [Voxels -> 0..MaxLogValue]
    /\ dataset = "HCPL"
    /\ postprocessing = "EPFL"
    /\ grids = [g \in {"dwi", "inject", "rois"} |-> "A"]
    /\ rois = [v \in Voxels |-> 0]
    /\ downloads = {}
    /\ progress = "Processing density map (EPFL)"
    /\ tracked = <<>>
    /\ streamlines = <<>>
    /\ filtered = <<>>
    /\ density_in = <<>>
    /\ epfl_stack = <<>>
    /\ vumc_stack = <<>>
    /\ archives = {}
    /\ uploads = {}
    /\ error = "none"
    /\ tracker = IdleTracker

QuantizeLoop ==
    /\ pc = "quantize"
    /\ Quantize(log_density, epfl_stack, "EPFL", "quantized")
    /\ UNCHANGED <<dataset, postprocessing, grids, rois, downloads, progress,
                   tracked, streamlines, filtered, density_in, log_density,
                   vumc_stack, uploads,
                   tracker>>

QuantSpec == QuantInit /\ [][QuantizeLoop]_vars

\* ------------------------------------------------------ the tracking loop
\* What lines 151-153 run: LocalTracking grows a streamline from every seed,
\* and Streamlines(...) collects what it yields.  Positions are the points of
\* a closed path of the grid, one step apart, so that growth can go round for
\* ever; a position outside the grid is one where the stopping criterion
\* fails.  The orientation distribution is symmetric, so a position either
\* offers the direction of the path, both ways, or none.  Here a streamline
\* is the sequence of its points.
Points == 1..3

NextPoint(p, d) == ((p - 1 + d + Cardinality(Points)) % Cardinality(Points)) + 1

Direction(phase) == IF phase = "forward" THEN 1 ELSE -1

\* Step 2 to 4 of the walk: the stopping criterion holds at the position, a
\* direction within the turning angle has mass, and the budget is not spent.
CanGrow(t) ==
    /\ t.valid[t.pos]
    /\ t.pmf[t.pos]
    /\ t.steps < StepBudget

Reverse(seq) == [k \in 1..Len(seq) |-> seq[Len(seq) + 1 - k]]

\* Step 5: the two walks joined, the seed between them.
Concatenate(t) == Reverse(t.backward) \o <<t.seeds[t.i]>> \o t.forward

\* A slip of the collection: a streamline of one point is left out.
CollectShort(yielded) == SelectSeq(yielded, LAMBDA sl : Len(sl) > 1)

\* Streamlines(streamline_generator): every streamline yielded, in order.
Collect(yielded) == yielded

SeedSets == UNION {[1..n -> Points] : n \in 0..MaxSeeds}

StartSeed(t, i) ==
    IF i > Len(t.seeds)
    THEN [t EXCEPT !.phase = "exhausted", !.i = i]
    ELSE [t EXCEPT !.phase = "forward", !.i = i, !.pos = t.seeds[i],
                   !.steps = 0, !.forward = <<>>, !.backward = <<>>]

TrackInit ==
    /\ pc = "track"
    /\ dataset \in {"HCPL", "DSI"}
    /\ postprocessing = "EPFL"
    /\ grids = [g \in {"dwi", "inject", "rois"} |->
                   IF g = "rois" THEN "unloaded" ELSE "A"]
    /\ rois = [v \in Voxels |-> 0]
    /\ downloads = {"dwi", "bvalues", "bvecs", "inject", "VUMC_ROIs"}
    /\ progress = "Processing tractography."
    /\ tracked = <<>>
    /\ streamlines = <<>>
    /\ filtered = <<>>
    /\ density_in = <<>>
    /\ log_density = [v \in Voxels |-> 0]
    /\ epfl_stack = <<>>
    /\ vumc_stack = <<>>
    /\ archives = {}
    /\ uploads = {}
    /\ error = "none"
    /\ \E seeds \in SeedSets, valid \in [Points -> BOOLEAN],
          pmf \in [Points -> BOOLEAN] :
        tracker = StartSeed([seeds |-> seeds, valid |-> valid, pmf |-> pmf,
                             phase |-> "idle", i |-> 0, pos |-> 0, steps |-> 0,
                             forward |-> <<>>, backward |-> <<>>,
                             yielded |-> <<>>], 1)

UnchangedRun ==
    UNCHANGED <<pc, dataset, postprocessing, grids, rois, downloads, progress,
                tracked, streamlines, filtered, density_in, log_density,
                epfl_stack, vumc_stack, archives, uploads, error>>

\* One step of a walker: advance by the step size, append the new point.
WalkerStep ==
    /\ tracker.phase \in {"forward", "backward"}
    /\ CanGrow(tracker)
    /\ LET p == NextPoint(tracker.pos, Direction(tracker.phase))
       IN  tracker' =
             IF tracker.phase = "forward"
             THEN [tracker EXCEPT !.pos = p, !.steps = @ + 1,
                                  !.forward = Append(@, p)]
             ELSE [tracker EXCEPT !.pos = p, !.steps = @ + 1,
                                  !.backward = Append(@, p)]
    /\ UnchangedRun

\* The forward walker has ended: the backward walker starts from the seed.
TurnBack ==
    /\ tracker.phase = "forward"
    /\ ~CanGrow(tracker)
    /\ tracker' = [tracker EXCEPT !.phase = "backward",
                                  !.pos = tracker.seeds[tracker.i], !.steps = 0]
    /\ UnchangedRun

\* The backward walker has ended: the streamline is yielded, the next seed
\* is taken.
Yield ==
    /\ tracker.phase = "backward"
    /\ ~CanGrow(tracker)
    /\ tracker' = StartSeed([tracker EXCEPT !.yielded = Append(@, Concatenate(tracker))],
                            tracker.i + 1)
    /\ UnchangedRun

\* Line 153, once the generator is exhausted.
CollectStreamlines ==
    /\ pc = "track"
    /\ tracker.phase = "exhausted"
    /\ tracked' = Collect(tracker.yielded)
    /\ streamlines' = Collect(tracker.yielded)
    /\ tracker' = [tracker EXCEPT !.phase = "collected"]
    /\ pc' = "epfl"
    /\ UNCHANGED <<dataset, postprocessing, grids, rois, downloads, progress,
                   filtered, density_in, log_density, epfl_stack, vumc_stack,
                   archives, uploads, error>>

TrackNext == WalkerStep \/ TurnBack \/ Yield \/ CollectStreamlines

\* run is one sequential program: a step that can be taken is taken.
TrackSpec == TrackInit /\ [][TrackNext]_vars /\ WF_vars(TrackNext)

\* ------------------------------------------------------------------ claims
Stacks == {epfl_stack, vumc_stack}

Range(seq) == {seq[i] : i \in 1..Len(seq)}

EPFLMessage == "Processing density map (EPFL)"
VUMCMessage == "Processing density map (VUMC)"

\* C1: in every stack written, the mask at a lower index contains the mask
\* at every higher index.
C1_StackMonotonic ==
    \A stack \in Stacks :
        \A i \in 1..Len(stack), j \in 1..Len(stack) :
            i < j => stack[j] \subseteq stack[i]

\* A stack whose last mask is strictly smaller than its first.
C1_Witness ==
    /\ pc = "quantized"
    /\ epfl_stack[Len(epfl_stack)] /= epfl_stack[1]
    /\ epfl_stack[Len(epfl_stack)] /= {}

\* C2: with a positive maximum the loop writes exactly 200 volumes, volume i
\* the indicator of log_density >= i * step.
C2_Exactly200 ==
    pc = "quantized" =>
        /\ Len(epfl_stack) = NumThresholds
        /\ \A i \in 1..Len(epfl_stack) :
            epfl_stack[i] = Mask(log_density, Step(MaxDensity(log_density)), i - 1)

\* C10: with a positive maximum every mask written holds every voxel at the
\* maximum, so none is empty, and the mask of index 0 is the whole grid.
C10_MasksHoldMaximum ==
    pc = "quantized" =>
        /\ \A i \in 1..Len(epfl_stack) :
            /\ {v \in Voxels : log_density[v] = MaxDensity(log_density)}
                   \subseteq epfl_stack[i]
            /\ epfl_stack[i] /= {}
        /\ epfl_stack[1] = Voxels

\* A stack whose last mask leaves a voxel out.
C10_Witness ==
    /\ pc = "quantized"
    /\ epfl_stack[Len(epfl_stack)] /= Voxels

\* A stage went as far as its density step.
AtDensityStep == progress \in {EPFLMessage, VUMCMessage} /\ error /= "IndexError"

\* The VUMC stage went as far as its density step.
VUMCReached == progress = VUMCMessage /\ error /= "IndexError"

\* The VUMC stage wrote its stack.
VUMCWritten == pc \in {"upload", "done"} /\ postprocessing \in {"VUMC", "ALL"}

\* The EPFL stage wrote its stack.
EPFLWritten ==
    pc \in {"vumc", "upload", "done"} /\ postprocessing \in {"EPFL", "ALL"}

\* C3: an empty bundle at the density step gives no volume and no error, and
\* run goes on to the archive and the upload.  Stated for the bundles that
\* tracking filled and the filters emptied.
C3_EmptyBundleNoError ==
    (AtDensityStep /\ tracked /= <<>> /\ density_in = <<>>) =>
        /\ error = "none"
        /\ pc /= "raised"
        /\ progress = EPFLMessage => epfl_stack = <<>> /\ "EPFL" \in archives
        /\ progress = VUMCMessage => vumc_stack = <<>> /\ "VUMC" \in archives

\* C4: a dataset that is neither HCPL nor DSI ends run where it is examined,
\* with nothing downloaded and nothing done after.
C4_FailFast ==
    (dataset \notin {"HCPL", "DSI"} /\ pc /= "start") =>
        /\ pc = "raised"
        /\ downloads = {}

\* C5, as claimed: no streamline of the bundle given to the VUMC density step
\* touches fewer than two ROI labels other than 0.
C5_TwoNonZeroLabels ==
    VUMCReached =>
        \A s \in Range(density_in) : Cardinality(EntireLabels(s, rois) \ {0}) >= 2

\* C5, amended: the bundle given to the VUMC density step is made of the
\* streamlines longer than 1 that pass through a voxel of label 0 and a voxel
\* of label 1, label 0 counting as a label: all of them, in tracking order,
\* and no other.  So a streamline whose voxels carry one label only is never
\* in it, and a bundle confined to label 0 gives the empty bundle.
C5_TargetPairOnly ==
    VUMCReached =>
        /\ density_in =
             SelectSeq(filtered, LAMBDA s : {0, 1} \subseteq {rois[v] : v \in s.vox})
        /\ \A s \in Range(density_in) : Cardinality({rois[v] : v \in s.vox}) >= 2
        /\ (\A s \in Range(filtered) : {rois[v] : v \in s.vox} = {0})
               => density_in = <<>>

\* The ROI filter dropped a streamline and kept one that touches label 1 and
\* no other ROI label.
C5_Witness ==
    /\ VUMCWritten
    /\ Len(density_in) < Len(filtered)
    /\ \E s \in Range(density_in) : {rois[v] : v \in s.vox} = {0, 1}

\* C6: in every mode the bundle given to a density step holds no streamline
\* of length <= 1, and the length filter keeps every tracked streamline
\* longer than 1, in order.
C6_LengthFilter ==
    AtDensityStep =>
        /\ filtered = SelectSeq(tracked, LAMBDA s : s.len > 10)
        /\ \A s \in Range(density_in) : s.len > 10
        /\ progress = EPFLMessage => density_in = filtered

\* A streamline of length exactly 1 was dropped and a longer one was kept.
C6_Witness ==
    /\ AtDensityStep
    /\ pc /= "raised"
    /\ \E s \in Range(tracked) : s.len = 10
    /\ Len(filtered) = 1
    /\ Len(tracked) = 2

Mismatch ==
    \E g \in DOMAIN grids, h \in DOMAIN grids :
        /\ grids[g] /= "unloaded"
        /\ grids[h] /= "unloaded"
        /\ grids[g] /= grids[h]

\* C7: volumes on different grids are rejected on entry: nothing is tracked
\* and no volume is written from them.
C7_MismatchRejected ==
    Mismatch =>
        /\ pc = "raised"
        /\ tracked = <<>>
        /\ epfl_stack = <<>>
        /\ vumc_stack = <<>>

\* The stack the loop writes for a bundle (none when the density is zero).
StackOf(bundle) ==
    CHOOSE stack \in {IF MaxDensity(ld) = 0 THEN <<>> ELSE ThresholdStack(ld) :
                         ld \in {LogDensity(bundle)}} : TRUE

\* C9: the VUMC stack is the one a run of the VUMC stage alone writes for the
\* tracked bundle (one length filter, then the ROI filter), also in mode ALL
\* where the EPFL stage has filtered the shared bundle before; and the EPFL
\* stack is that of the length-filtered bundle, whatever the ROI volume.
C9_StagesIndependent ==
    /\ VUMCWritten =>
         vumc_stack =
           StackOf(SelectSeq(tracked,
                             LAMBDA s : /\ s.len > 10
                                        /\ {0, 1} \subseteq {rois[v] : v \in s.vox}))
    /\ EPFLWritten =>
         epfl_stack = StackOf(SelectSeq(tracked, LAMBDA s : s.len > 10))

\* Mode ALL has written both stacks, the VUMC stage having filtered by
\* length a bundle the EPFL stage had already shortened.
C9_Witness ==
    /\ pc = "done"
    /\ postprocessing = "ALL"
    /\ Len(filtered) < Len(tracked)
    /\ vumc_stack /= <<>>
    /\ epfl_stack /= <<>>

\* C8: for every seed set and every field, tracking ends, each walker
\* stopped by the stopping criterion (which fails outside the grid), by the
\* lack of a direction or by the step budget, and the bundle holds one
\* streamline per seed, in seed order.
C8_TrackingTerminates ==
    <>(/\ pc = "epfl"
       /\ Len(tracked) = Len(tracker.seeds)
       /\ \A i \in 1..Len(tracked) :
            /\ tracker.seeds[i] \in Range(tracked[i])
            /\ Len(tracked[i]) <= 2 * StepBudget + 1)

\* Tracking of two seeds or more has ended, with a streamline both of whose
\* walkers were stopped by the budget alone.
C8_Witness ==
    /\ pc = "epfl"
    /\ tracker.phase = "collected"
    /\ Len(tracked) >= 2
    /\ \E i \in 1..Len(tracked) : Len(tracked[i]) = 2 * StepBudget + 1

====
